---- MODULE Spec2Model ----
(***************************************************************************)
(* Model of the AIDGE batch service: api_server.py (the batch endpoints    *)
(* and the process-wide task_results store) and demotest.py (the           *)
(* AsyncApiClient with its semaphore, submit_task, poll_task_status and    *)
(* process_single_request).                                                *)
(*                                                                         *)
(* The asyncio event loop runs one coroutine at a time and switches only   *)
(* at an await that really suspends: waiting for the semaphore, a          *)
(* transport round trip, a backoff sleep, awaiting an unfinished task.     *)
(* Every action below is the code between two such suspension points.      *)
(***************************************************************************)
EXTENDS Integers, Sequences, FiniteSets, TLC

\* ------------------------------------------------------------------ bounds
\* Number of POST /api/batch submissions the model follows.
NumBatches == 2
\* Largest number of requests in one batch.
MaxTasks == 2
\* Largest max_concurrent a submission carries (the smallest is -1).
MaxConcurrent == 2
\* max_retries of poll_task_status (60 in the source, shortened here).
MaxRetries == 2
\* Requests to /api/process the model follows.
NumRequests == 2
\* max_retries of the runs with several batches.
BatchRetries == 1
\* max_retries of the runs that follow one poll loop up to the delay cap.
PollRetries == 7

Batches == 1..NumBatches
Idx == 0..(MaxTasks - 1)
Reqs == 1..NumRequests
ConcValues == (-1)..MaxConcurrent

\* ------------------------------------------------------------------- JSON
\* A JSON object is a record of its members; the other JSON values carry a
\* tag t. A response text is either the text of a JSON value or not JSON.
Null == [t |-> "null"]
Str(s) == [t |-> "str", s |-> s]
Num(n) == [t |-> "num", n |-> n]
EmptyObj == [k \in {} |-> Null]
IsObj(v) == "t" \notin DOMAIN v
\* dict.get(key, default)
Get(o, k, d) == IF k \in DOMAIN o THEN o[k] ELSE d
\* Python truthiness of a JSON value, as `if not task_id` reads it.
Truthy_Always(v) == TRUE
Truthy(v) == v # Null /\ v # Str("") /\ v # Num(0) /\ v # EmptyObj

\* Response texts carry seq, the number of the call they answer (0: unset).
Text(j) == [json |-> TRUE, value |-> j, seq |-> 0]
Garbage == [json |-> FALSE, value |-> Null, seq |-> 0]
Stamp(text, k) == [text EXCEPT !.seq = k]

\* What the transport does with one call: it raises, or returns a body.
Raises == [exc |-> TRUE, text |-> Garbage]
Returns(text) == [exc |-> FALSE, text |-> text]

ApiErrorText == Text([code |-> Num(-1), message |-> Str("api call exception")])
TimeoutText == Text([code |-> Num(-1), message |-> Str("poll timeout")])

\* The body of invoke_api inside the semaphore: the response text, or the
\* error JSON when the transport raises.
invoke_api(outcome) == IF outcome.exc THEN ApiErrorText ELSE outcome.text

\* Lines 97-105 of submit_task: the task id read from the submit response;
\* every exception of the parse yields None (Null).
submit_task(text) ==
    IF ~text.json THEN Null
    ELSE IF ~IsObj(text.value) THEN Null
    ELSE LET data == Get(text.value, "data", EmptyObj) IN
         IF ~IsObj(data) THEN Null
         ELSE LET result == Get(data, "result", EmptyObj) IN
              IF ~IsObj(result) THEN Null
              ELSE LET tid == Get(result, "taskId", Null) IN
                   IF Truthy(tid) THEN tid ELSE Get(data, "taskId", Null)

\* Lines 129-130 of poll_task_status: the parsed data.taskStatus, or the
\* exception the parse raises.
ParseRaised == [t |-> "raised"]
task_status(text) ==
    IF ~text.json THEN ParseRaised
    ELSE IF ~IsObj(text.value) THEN ParseRaised
    ELSE LET data == Get(text.value, "data", EmptyObj) IN
         IF ~IsObj(data) THEN ParseRaised
         ELSE Get(data, "taskStatus", Null)

\* Delays are counted in 1/32 s: every delay the loop can reach below the
\* cap is 3^a * 2^b / 32 s, and the floats of the source hold them exactly.
Unit == 32
\* Line 107: initial_delay=1, max_delay=10.
InitialDelay == 1 * Unit
MaxDelay == 10 * Unit
Min(x, y) == IF x <= y THEN x ELSE y
\* Line 137: delay = min(delay * 1.5, max_delay). The one odd delay, 243/32,
\* grows past the cap, so the integer division loses nothing.
GrowPending_Double(d) == Min(d * 2, MaxDelay)
GrowPending(d) == Min((d * 3) \div 2, MaxDelay)
\* Line 141: delay = min(delay * 2, max_delay).
GrowError(d) == Min(d * 2, MaxDelay)

\* Line 132.
IsTerminal_OnlyFinished(st) == st = Str("finished")
IsTerminal(st) == st = Str("finished") \/ st = Str("failed")

\* ------------------------------------------------------- the environment
SubmitOutcomes ==
    { Raises,
      Returns(Garbage),
      Returns(Text(EmptyObj)),
      Returns(Text([data |-> Null])),
      Returns(Text([data |-> EmptyObj])),
      Returns(Text([data |-> [result |-> EmptyObj]])),
      Returns(Text([data |-> [result |-> [taskId |-> Str("")]]])),
      Returns(Text([data |-> [result |-> [taskId |-> Str("T1")]]])),
      Returns(Text([data |-> [taskId |-> Str("T1")]])),
      Returns(Text([data |-> [result |-> Null, taskId |-> Str("T1")]])) }

QueryOutcomes ==
    { Raises,
      Returns(Garbage),
      Returns(Text([data |-> Null])),
      Returns(Text([data |-> EmptyObj])),
      Returns(Text([data |-> [taskStatus |-> Str("running")]])),
      Returns(Text([data |-> [taskStatus |-> Str("success")]])),
      Returns(Text([data |-> [taskStatus |-> Str("finished")]])),
      Returns(Text([data |-> [taskStatus |-> Str("failed")]])) }

\* ------------------------------------------------------------------ state
VARIABLES
    task_results,    \* api_server.task_results: batch id -> record
    bpc,             \* per submission: idle, scheduled, running, crashed, done
    batch_id,        \* per submission: the id process_batch returned
    requests,        \* per submission: len(request.requests)
    max_concurrent,  \* per submission: request.max_concurrent
    semaphore,       \* per batch client: the semaphore's free permits
    results,         \* per batch: the local list of process_batch_and_save
    tpc,             \* per task: submit, submitting, poll, querying, sleeping, done
    task_id,         \* per task: what submit_task returned
    attempt,         \* per task: completed iterations of the poll loop
    nq,              \* per task: status-query calls started
    nw,              \* per task: backoff sleeps started
    tout,            \* per task: what process_single_request returned
    delay,           \* per task: the local delay of poll_task_status (0: none)
    in_except,       \* per task: the sleep in progress is the one of line 140
    held,            \* per task: semaphore permits the task holds
    nfail,           \* per task: queries of the poll in progress that raised
                     \* or did not parse
    done_order,      \* per batch: the task indices in the order they returned
    max_retries,     \* the max_retries every poll loop of the run is given
    api              \* per /api/process request: the handler's position (pc),
                     \* its client's semaphore (sem), its locals and its reply

vars == << task_results, bpc, batch_id, requests, max_concurrent, semaphore,
           results, tpc, task_id, attempt, nq, nw, tout, delay, in_except,
           held, nfail, done_order, max_retries, api >>

batchVars == << bpc, batch_id, requests, max_concurrent, max_retries, api >>
taskVars == << tpc, task_id, attempt, nq, nw, tout, delay, in_except, held,
              nfail, done_order >>

NoOutcome == [status |-> "none"]

\* Line 20: max_concurrent_requests=10, the limiter of AsyncApiClient().
DefaultConcurrent == 10
NoReply == [code |-> 0]
IdleRequest == [pc |-> "idle", sem |-> 0, task_id |-> Null, attempt |-> 0,
                nq |-> 0, delay |-> 0, in_except |-> FALSE, reply |-> NoReply]

InitWith(retries) ==
    /\ max_retries = retries
    /\ api = [r \in Reqs |-> IdleRequest]
    /\ delay = [b \in Batches |-> [i \in Idx |-> 0]]
    /\ in_except = [b \in Batches |-> [i \in Idx |-> FALSE]]
    /\ held = [b \in Batches |-> [i \in Idx |-> 0]]
    /\ nfail = [b \in Batches |-> [i \in Idx |-> 0]]
    /\ done_order = [b \in Batches |-> << >>]
    /\ task_results = [k \in {} |-> Null]
    /\ bpc = [b \in Batches |-> "idle"]
    /\ batch_id = [b \in Batches |-> 0]
    /\ requests = [b \in Batches |-> 0]
    /\ max_concurrent = [b \in Batches |-> 0]
    /\ semaphore = [b \in Batches |-> 0]
    /\ results = [b \in Batches |-> << >>]
    /\ tpc = [b \in Batches |-> [i \in Idx |-> "none"]]
    /\ task_id = [b \in Batches |-> [i \in Idx |-> Null]]
    /\ attempt = [b \in Batches |-> [i \in Idx |-> 0]]
    /\ nq = [b \in Batches |-> [i \in Idx |-> 0]]
    /\ nw = [b \in Batches |-> [i \in Idx |-> 0]]
    /\ tout = [b \in Batches |-> [i \in Idx |-> NoOutcome]]

Init == InitWith(MaxRetries)

\* dict assignment d[k] = v
Put(d, k, v) == [x \in (DOMAIN d) \cup {k} |-> IF x = k THEN v ELSE d[x]]

\* ------------------------------------------------------------- api_server
\* Line 115: batch_id = f"batch_{len(task_results) + 1}".
NewBatchId == Cardinality(DOMAIN task_results) + 1

\* POST /api/batch: the handler picks the id, schedules the background run
\* and returns the id. Submissions are numbered in their order of arrival.
process_batch(b, n, mc) ==
    /\ bpc[b] = "idle"
    /\ \A a \in Batches : a < b => bpc[a] # "idle"
    /\ bpc' = [bpc EXCEPT ![b] = "scheduled"]
    /\ batch_id' = [batch_id EXCEPT ![b] = NewBatchId]
    /\ requests' = [requests EXCEPT ![b] = n]
    /\ max_concurrent' = [max_concurrent EXCEPT ![b] = mc]
    /\ UNCHANGED << task_results, semaphore, results, taskVars, max_retries, api >>

\* GET /api/batch/{batch_id}: the handler only reads the store, so it is the
\* answer a query gets in the current state.
get_batch_result(id) ==
    IF id \notin DOMAIN task_results
    THEN [code |-> 404]
    ELSE [code |-> 200, body |-> task_results[id]]

\* Line 145: the record the background run registers.
ProcessingRecord == [status |-> "processing", results |-> << >>]

\* Line 173: the record the background run publishes.
CompletedRecord(b) == [status |-> "completed", results |-> results[b]]

\* process_batch_and_save up to its first await of a task (lines 143-165):
\* registers the record, builds the client (asyncio.Semaphore raises on a
\* negative value and the run ends there) and creates the tasks.
start_batch(b) ==
    /\ bpc[b] = "scheduled"
    /\ task_results' = Put(task_results, batch_id[b], ProcessingRecord)
    /\ IF max_concurrent[b] < 0
       THEN /\ bpc' = [bpc EXCEPT ![b] = "crashed"]
            /\ UNCHANGED << semaphore, tpc >>
       ELSE /\ bpc' = [bpc EXCEPT ![b] = "running"]
            /\ semaphore' = [semaphore EXCEPT ![b] = max_concurrent[b]]
            /\ tpc' = [tpc EXCEPT ![b] =
                         [i \in Idx |-> IF i < requests[b] THEN "submit" ELSE "none"]]
    /\ UNCHANGED << batch_id, requests, max_concurrent, max_retries, api, results,
                    task_id, attempt, nq, nw, tout, delay, in_except, held,
                    nfail, done_order >>

\* Lines 166 and 170: the item appended for task i.
Item_AsResult(i, out) == [index |-> i, result |-> out]
Item(i, out) ==
    IF out.status = "raised"
    THEN [index |-> i, error |-> out.message]
    ELSE [index |-> i, result |-> out]

\* Line 162: `for i, task in tasks` awaits the tasks in the order they were
\* created, whichever has returned.
NextAwaited_AsCompleted(b) ==
    IF Len(done_order[b]) > Len(results[b])
    THEN done_order[b][Len(results[b]) + 1]
    ELSE Len(results[b])
NextAwaited(b) == Len(results[b])

\* One iteration of the loop of lines 162-170: `await task` returns once
\* task i is done and its item is appended.
await_task(b) ==
    /\ bpc[b] = "running"
    /\ Len(results[b]) < requests[b]
    /\ LET i == NextAwaited(b) IN
        /\ tpc[b][i] = "done"
        /\ results' = [results EXCEPT ![b] = Append(@, Item(i, tout[b][i]))]
    /\ UNCHANGED << task_results, batchVars, semaphore, taskVars >>

\* Line 173, after the loop.
save_batch(b) ==
    /\ bpc[b] = "running"
    /\ Len(results[b]) = requests[b]
    /\ task_results' = Put(task_results, batch_id[b], CompletedRecord(b))
    /\ bpc' = [bpc EXCEPT ![b] = "done"]
    /\ UNCHANGED << batch_id, requests, max_concurrent, max_retries, api, semaphore,
                    results, taskVars >>

\* --------------------------------------------------------------- demotest
\* `async with self.semaphore` lets a call in while a permit is free.
CanAcquire_NoLimit(b) == TRUE
CanAcquire(b) == semaphore[b] > 0
Acquire_NoCount(b) == semaphore
Acquire(b) == [semaphore EXCEPT ![b] = @ - 1]
Release_Leak(b) == semaphore
Release(b) == [semaphore EXCEPT ![b] = @ + 1]

Failed == [status |-> "failed", message |-> "submit failed"]
Success(tid, text) == [status |-> "success", task_id |-> tid, result |-> text]

\* submit_task enters invoke_api: the submit call is in flight.
submit_call(b, i) ==
    /\ bpc[b] = "running"
    /\ tpc[b][i] = "submit"
    /\ CanAcquire(b)
    /\ semaphore' = Acquire(b)
    /\ tpc' = [tpc EXCEPT ![b][i] = "submitting"]
    /\ held' = [held EXCEPT ![b][i] = @ + 1]
    /\ UNCHANGED << task_results, batchVars, results, task_id, attempt, nq, nw, tout,
                    delay, in_except, nfail, done_order >>

\* The submit call ends; process_single_request returns the failure when
\* there is no task id (lines 179-181), else goes on to poll.
submit_return(b, i, o) ==
    /\ tpc[b][i] = "submitting"
    /\ semaphore' = Release(b)
    /\ LET tid == submit_task(invoke_api(o)) IN
        /\ task_id' = [task_id EXCEPT ![b][i] = tid]
        /\ IF ~Truthy(tid)
           THEN /\ tpc' = [tpc EXCEPT ![b][i] = "done"]
                /\ tout' = [tout EXCEPT ![b][i] = Failed]
                /\ done_order' = [done_order EXCEPT ![b] = Append(@, i)]
                /\ UNCHANGED delay
           ELSE /\ tpc' = [tpc EXCEPT ![b][i] = "poll"]
                /\ delay' = [delay EXCEPT ![b][i] = InitialDelay]
                /\ UNCHANGED << tout, done_order >>
    /\ held' = [held EXCEPT ![b][i] = @ - 1]
    /\ UNCHANGED << task_results, batchVars, results, attempt, nq, nw, in_except,
                    nfail >>

\* A status query that failed: the transport raised (line 75) or the
\* response could not be parsed (line 138).
QueryFailed(o) == o.exc \/ task_status(o.text) = ParseRaised

\* Lines 136 and 140: after a query that did not end the poll the
\* coroutine awaits asyncio.sleep(delay) before the loop goes round.
AfterPending_NoSleep == "poll"
AfterPending == "sleeping"

\* Line 128: one status query enters invoke_api.
query_call(b, i) ==
    /\ tpc[b][i] = "poll"
    /\ CanAcquire(b)
    /\ semaphore' = Acquire(b)
    /\ tpc' = [tpc EXCEPT ![b][i] = "querying"]
    /\ nq' = [nq EXCEPT ![b][i] = @ + 1]
    /\ held' = [held EXCEPT ![b][i] = @ + 1]
    /\ UNCHANGED << task_results, batchVars, results, task_id, attempt, nw, tout,
                    delay, in_except, nfail, done_order >>

\* Lines 129-141: the query ends; a terminal status returns the response,
\* anything else (a parse exception too) starts the backoff sleep.
query_return(b, i, o) ==
    /\ tpc[b][i] = "querying"
    /\ semaphore' = Release(b)
    /\ LET text == Stamp(invoke_api(o), nq[b][i])
           st == task_status(text)
       IN IF IsTerminal(st)
          THEN /\ tpc' = [tpc EXCEPT ![b][i] = "done"]
               /\ tout' = [tout EXCEPT ![b][i] = Success(task_id[b][i], text)]
               /\ delay' = [delay EXCEPT ![b][i] = 0]
               /\ nfail' = [nfail EXCEPT ![b][i] = 0]
               /\ done_order' = [done_order EXCEPT ![b] = Append(@, i)]
               /\ UNCHANGED << nw, in_except >>
          ELSE /\ tpc' = [tpc EXCEPT ![b][i] = AfterPending]
               /\ nw' = [nw EXCEPT ![b][i] = @ + 1]
               /\ in_except' = [in_except EXCEPT ![b][i] = (st = ParseRaised)]
               /\ nfail' = [nfail EXCEPT ![b][i] = IF QueryFailed(o) THEN @ + 1 ELSE @]
               /\ UNCHANGED << tout, delay, done_order >>
    /\ held' = [held EXCEPT ![b][i] = @ - 1]
    /\ UNCHANGED << task_results, batchVars, results, task_id, attempt, nq >>

\* Line 126: `for _ in range(max_retries)` goes round after a iterations.
LoopGoesOn_OneMore(a) == a <= max_retries
LoopGoesOn(a) == a < max_retries

\* The sleep of line 136 or 140 ends and the delay grows (137, 141); the
\* loop of line 126 goes round, or runs out and line 143 returns the
\* timeout payload.
sleep_done(b, i) ==
    /\ tpc[b][i] = "sleeping"
    /\ attempt' = [attempt EXCEPT ![b][i] = @ + 1]
    /\ in_except' = [in_except EXCEPT ![b][i] = FALSE]
    /\ LET grown == IF in_except[b][i] THEN GrowError(delay[b][i])
                                       ELSE GrowPending(delay[b][i])
       IN IF LoopGoesOn(attempt[b][i] + 1)
          THEN /\ tpc' = [tpc EXCEPT ![b][i] = "poll"]
               /\ delay' = [delay EXCEPT ![b][i] = grown]
               /\ UNCHANGED << tout, done_order, nfail >>
          ELSE /\ tpc' = [tpc EXCEPT ![b][i] = "done"]
               /\ delay' = [delay EXCEPT ![b][i] = 0]
               /\ nfail' = [nfail EXCEPT ![b][i] = 0]
               /\ done_order' = [done_order EXCEPT ![b] = Append(@, i)]
               /\ tout' = [tout EXCEPT ![b][i] = Success(task_id[b][i], TimeoutText)]
    /\ UNCHANGED << task_results, batchVars, semaphore, results, task_id, nq, nw, held >>

\* ------------------------------------------------------------------- spec
\* The steps of the submissions in B and of their background runs.
\* ------------------------------------------- api_server.py: process_api
serverVars == << task_results, bpc, batch_id, requests, max_concurrent, semaphore,
                 results, taskVars, max_retries >>

\* Line 101: raise HTTPException(status_code=400, detail="提交任务失败").
SubmitFailed == [code |-> 400, detail |-> "submit failed"]
\* Lines 107-109: `except Exception` encloses the whole body of the
\* handler; whatever it catches, the HTTPException of line 101 included
\* (HTTPException is a subclass of Exception), is answered with a 500.
Caught(e) == [code |-> 500, detail |-> e.detail]
\* Line 105: the 200 answer; json.loads raises on a text that is not JSON.
Answer(tid, text) ==
    IF text.json
    THEN [code |-> 200, body |-> [task_id |-> tid, result |-> text.value]]
    ELSE Caught([code |-> 0, detail |-> "json.loads"])

\* Lines 94-98: the handler starts, builds its own client and enters
\* submit_task.
process_api(r) ==
    /\ api[r].pc = "idle"
    /\ api' = [api EXCEPT ![r].pc = "submit", ![r].sem = DefaultConcurrent]
    /\ UNCHANGED serverVars

\* Line 98: the submit call enters invoke_api.
api_submit_call(r) ==
    /\ api[r].pc = "submit"
    /\ api[r].sem > 0
    /\ api' = [api EXCEPT ![r].pc = "submitting", ![r].sem = @ - 1]
    /\ UNCHANGED serverVars

\* Lines 98-104: the submit call returns; without a task id line 101
\* raises inside the try block, otherwise the poll starts (125).
api_submit_return(r, o) ==
    /\ api[r].pc = "submitting"
    /\ LET tid == submit_task(invoke_api(o)) IN
        api' = [api EXCEPT
                   ![r].sem = @ + 1,
                   ![r].task_id = tid,
                   ![r].pc = IF ~Truthy(tid) THEN "replied" ELSE "poll",
                   ![r].delay = IF ~Truthy(tid) THEN 0 ELSE InitialDelay,
                   ![r].reply = IF ~Truthy(tid) THEN Caught(SubmitFailed) ELSE NoReply]
    /\ UNCHANGED serverVars

\* Line 128, from line 104.
api_query_call(r) ==
    /\ api[r].pc = "poll"
    /\ api[r].sem > 0
    /\ api' = [api EXCEPT ![r].pc = "querying", ![r].sem = @ - 1, ![r].nq = @ + 1]
    /\ UNCHANGED serverVars

\* Lines 128-141 and 105.
api_query_return(r, o) ==
    /\ api[r].pc = "querying"
    /\ LET text == Stamp(invoke_api(o), api[r].nq)
           st == task_status(text)
       IN api' = [api EXCEPT
                     ![r].sem = @ + 1,
                     ![r].pc = IF IsTerminal(st) THEN "replied" ELSE AfterPending,
                     ![r].delay = IF IsTerminal(st) THEN 0 ELSE @,
                     ![r].in_except = ~IsTerminal(st) /\ st = ParseRaised,
                     ![r].reply = IF IsTerminal(st)
                                  THEN Answer(api[r].task_id, text) ELSE NoReply]
    /\ UNCHANGED serverVars

\* Lines 136-143 and 105.
api_sleep_done(r) ==
    /\ api[r].pc = "sleeping"
    /\ LET grown == IF api[r].in_except THEN GrowError(api[r].delay)
                                        ELSE GrowPending(api[r].delay)
           on == LoopGoesOn(api[r].attempt + 1)
       IN api' = [api EXCEPT
                     ![r].attempt = @ + 1,
                     ![r].in_except = FALSE,
                     ![r].pc = IF on THEN "poll" ELSE "replied",
                     ![r].delay = IF on THEN grown ELSE 0,
                     ![r].reply = IF on THEN NoReply
                                  ELSE Answer(api[r].task_id, TimeoutText)]
    /\ UNCHANGED serverVars

\* What `await task` raises at line 165 when the coroutine of the task
\* ended with an exception; line 170 records its text.
Raised == [status |-> "raised", message |-> "unexpected exception"]

\* The coroutine of task i ends with an exception that none of its
\* handlers catches, at any point before its return; a permit it holds
\* is given back by the `async with` of invoke_api (line 52).
task_fault(b, i) ==
    /\ bpc[b] = "running"
    /\ tpc[b][i] \in {"submit", "submitting", "poll", "querying", "sleeping"}
    /\ tpc' = [tpc EXCEPT ![b][i] = "done"]
    /\ tout' = [tout EXCEPT ![b][i] = Raised]
    /\ semaphore' = IF held[b][i] = 1 THEN Release(b) ELSE semaphore
    /\ held' = [held EXCEPT ![b][i] = 0]
    /\ delay' = [delay EXCEPT ![b][i] = 0]
    /\ in_except' = [in_except EXCEPT ![b][i] = FALSE]
    /\ nfail' = [nfail EXCEPT ![b][i] = 0]
    /\ done_order' = [done_order EXCEPT ![b] = Append(@, i)]
    /\ UNCHANGED << task_results, batchVars, results, task_id, attempt, nq, nw >>

NextWith(B, Sizes) ==
    \/ \E b \in B, n \in Sizes, mc \in ConcValues : process_batch(b, n, mc)
    \/ \E b \in B : start_batch(b)
    \/ \E b \in B : await_task(b)
    \/ \E b \in B : save_batch(b)
    \/ \E b \in B, i \in Idx : submit_call(b, i)
    \/ \E b \in B, i \in Idx, o \in SubmitOutcomes : submit_return(b, i, o)
    \/ \E b \in B, i \in Idx : query_call(b, i)
    \/ \E b \in B, i \in Idx, o \in QueryOutcomes : query_return(b, i, o)
    \/ \E b \in B, i \in Idx : sleep_done(b, i)

\* The submissions B, of batches of every size up to MaxTasks.
NextOver(B) == NextWith(B, 0..MaxTasks)

\* The server with every submission the model follows.
Next == NextOver(Batches)

Spec == InitWith(BatchRetries) /\ [][Next]_vars

\* The event loop runs every ready coroutine: a scheduled background run
\* starts, a transport call returns or fails, a sleep ends, and the
\* semaphore wakes its waiters in turn. Clients need not submit anything.
Fairness ==
    /\ \A b \in Batches : WF_vars(start_batch(b))
    /\ \A b \in Batches : WF_vars(await_task(b))
    /\ \A b \in Batches : WF_vars(save_batch(b))
    /\ \A b \in Batches, i \in Idx :
        /\ SF_vars(submit_call(b, i))
        /\ WF_vars(\E o \in SubmitOutcomes : submit_return(b, i, o))
        /\ SF_vars(query_call(b, i))
        /\ WF_vars(\E o \in QueryOutcomes : query_return(b, i, o))
        /\ WF_vars(sleep_done(b, i))

FairSpec == Spec /\ Fairness

\* The server with a single submission: one batch run and its one client.
OneBatchNext == NextOver({1})

OneBatchSpec == Init /\ [][OneBatchNext]_vars
OneBatchFairSpec == OneBatchSpec /\ Fairness

\* One batch run any of whose tasks may end with an unexpected exception.
FaultNext == OneBatchNext \/ \E i \in Idx : task_fault(1, i)
FaultSpec == Init /\ [][FaultNext]_vars
FaultFairSpec == FaultSpec /\ Fairness

\* The requests to /api/process, each with its own client.
ApiNext ==
    \/ \E r \in Reqs : process_api(r)
    \/ \E r \in Reqs : api_submit_call(r)
    \/ \E r \in Reqs, o \in SubmitOutcomes : api_submit_return(r, o)
    \/ \E r \in Reqs : api_query_call(r)
    \/ \E r \in Reqs, o \in QueryOutcomes : api_query_return(r, o)
    \/ \E r \in Reqs : api_sleep_done(r)
ApiSpec == Init /\ [][ApiNext]_vars

\* One batch of at most one request whose poll loop is given PollRetries
\* retries, enough for the delay to reach its cap.
PollNext == NextWith({1}, {0, 1})
PollSpec == InitWith(PollRetries) /\ [][PollNext]_vars

\* ----------------------------------------------------------------- claims
Submitted(b) == bpc[b] # "idle"
\* Remote calls in flight through the client of batch b.
InFlight(b) == Cardinality({i \in Idx : tpc[b][i] \in {"submitting", "querying"}})
Indices(items) == {items[k].index : k \in 1..Len(items)}

\* C1: once the record of a batch of n requests is completed, it holds
\* exactly n items whose indices are 0..n-1, each with a result or an error.
C1_CompletedHasAllItems ==
    \A b \in Batches :
        (Submitted(b) /\ get_batch_result(batch_id[b]).code = 200) =>
            LET rec == get_batch_result(batch_id[b]).body IN
            rec.status = "completed" =>
                /\ Len(rec.results) = requests[b]
                /\ Indices(rec.results) = 0..(requests[b] - 1)
                /\ \A k \in 1..Len(rec.results) :
                       ("result" \in DOMAIN rec.results[k])
                           # ("error" \in DOMAIN rec.results[k])

\* C2: the calls in flight through one client never exceed the
\* max_concurrent the client was built with.
C2_InFlightAtMostMaxConcurrent ==
    \A b \in Batches :
        bpc[b] \in {"running", "done"} => InFlight(b) <= max_concurrent[b]

\* C2 witness: a client with all its permits in use and a task held back.
C2_Witness ==
    \E b \in Batches :
        /\ max_concurrent[b] >= 1
        /\ InFlight(b) = max_concurrent[b]
        /\ \E i \in Idx : tpc[b][i] \in {"submit", "poll"}

\* C3: no two submissions are given the same batch id.
C3_BatchIdsUnique ==
    \A a, b \in Batches :
        (a # b /\ Submitted(a) /\ Submitted(b)) => batch_id[a] # batch_id[b]

\* C4: a completed record is never changed again: no step sets it back to
\* processing or changes its items.
C4_CompletedIsFinal ==
    [][\A id \in DOMAIN task_results :
          task_results[id].status = "completed" =>
              (id \in DOMAIN task_results' /\ task_results'[id] = task_results[id])]_vars

\* C5: once a submission has returned its batch id, a query with that id
\* finds a record and never answers 404.
C5_RecordExistsOnceSubmitted ==
    \A b \in Batches :
        Submitted(b) => get_batch_result(batch_id[b]).code # 404

C7_NoPartialRecord ==
    \A b \in Batches :
        (bpc[b] = "running" /\ get_batch_result(batch_id[b]).code = 200) =>
            LET rec == get_batch_result(batch_id[b]).body IN
            \/ rec.status = "processing" /\ rec.results = << >>
            \/ rec.status = "completed" /\ Len(rec.results) = requests[b]

\* C8: every submitted batch eventually makes its transition to completed.
C8_EveryBatchCompletes ==
    \A b \in Batches : (bpc[b] = "scheduled") ~> (bpc[b] = "done")

\* The submit outcomes that carry a (non-empty) task id at
\* data.result.taskId or at data.taskId; all others yield none.
CarriesTaskId ==
    { Returns(Text([data |-> [result |-> [taskId |-> Str("T1")]]])),
      Returns(Text([data |-> [taskId |-> Str("T1")]])),
      Returns(Text([data |-> [result |-> Null, taskId |-> Str("T1")]])) }

\* C9: when the submit call of a task ends without a task id (transport
\* failure, a body that is not JSON, JSON without a task id), the task
\* resolves to the failure outcome, and a task with that outcome has made
\* no status query.
C9_NoTaskIdFailsWithoutQuery ==
    /\ [](\A b \in Batches, i \in Idx :
            tout[b][i] = Failed => (tpc[b][i] = "done" /\ nq[b][i] = 0))
    /\ [][\A b \in Batches, i \in Idx, o \in SubmitOutcomes \ CarriesTaskId :
            submit_return(b, i, o) =>
                (tpc'[b][i] = "done" /\ tout'[b][i] = Failed /\ nq'[b][i] = 0)]_vars

\* C9 witness: a task resolved to the failure outcome after its submit call.
C9_Witness ==
    \E b \in Batches, i \in Idx :
        tpc[b][i] = "done" /\ tout[b][i] = Failed /\ ~Truthy(task_id[b][i])

\* The query outcomes whose data.taskStatus is "finished" or "failed".
RemoteTerminal ==
    { Returns(Text([data |-> [taskStatus |-> Str("finished")]])),
      Returns(Text([data |-> [taskStatus |-> Str("failed")]])) }

\* C10: the k-th query starts after k-1 waits; when it answers "finished"
\* or "failed" the poll returns that k-th response with no further query or
\* wait; any other answer starts the next wait and returns nothing; and
\* what a poll returns is a terminal response or the timeout payload.
C10_StopsOnTerminalOnly ==
    /\ [](\A b \in Batches, i \in Idx :
            /\ tpc[b][i] = "querying" => nw[b][i] = nq[b][i] - 1
            /\ tout[b][i].status = "success" =>
                 \/ tout[b][i].result = TimeoutText
                 \/ /\ Returns(Stamp(tout[b][i].result, 0)) \in RemoteTerminal
                    /\ tout[b][i].result.seq = nq[b][i]
                    /\ nw[b][i] = nq[b][i] - 1
                    /\ nq[b][i] \in 1..max_retries)
    /\ [][\A b \in Batches, i \in Idx, o \in QueryOutcomes :
            query_return(b, i, o) =>
                IF o \in RemoteTerminal
                THEN /\ tpc'[b][i] = "done"
                     /\ tout'[b][i] = Success(task_id[b][i], Stamp(o.text, nq[b][i]))
                     /\ nq'[b][i] = nq[b][i]
                     /\ nw'[b][i] = nw[b][i]
                ELSE /\ tpc'[b][i] = "sleeping"
                     /\ tout'[b][i] = NoOutcome
                     /\ nw'[b][i] = nw[b][i] + 1]_vars

\* C10 witness: a poll that returned its second response, a terminal one,
\* after two queries and one wait.
C10_Witness ==
    \E b \in Batches, i \in Idx :
        /\ tpc[b][i] = "done"
        /\ tout[b][i].status = "success"
        /\ tout[b][i].result # TimeoutText
        /\ tout[b][i].result.seq = 2
        /\ nq[b][i] = 2
        /\ nw[b][i] = 1

\* C11: poll_task_status ends after at most max_retries status queries: a
\* task never sends more, a poll that has begun reaches its return, and a
\* poll whose max_retries queries were all followed by a wait (none was
\* terminal) returns the timeout payload, code -1, as the result of an
\* ordinary return.
C11_PollEndsWithinMaxRetries ==
    /\ [](\A b \in Batches, i \in Idx :
            /\ nq[b][i] <= max_retries
            /\ (tpc[b][i] = "done" /\ nw[b][i] = max_retries) =>
                 /\ tout[b][i] = Success(task_id[b][i], TimeoutText)
                 /\ tout[b][i].result.value.code = Num(-1)
                 /\ tout[b][i].status # "raised")
    /\ [][\A b \in Batches, i \in Idx :
            (sleep_done(b, i) /\ nq[b][i] = max_retries) =>
                /\ tpc'[b][i] = "done"
                /\ tout'[b][i].result = TimeoutText]_vars
    /\ \A b \in Batches, i \in Idx :
            (tpc[b][i] = "poll") ~> (tpc[b][i] = "done")

\* C11 witness: a poll that returned the timeout payload after max_retries
\* queries, one of which failed to parse and one of which was pending.
C11_Witness ==
    \E b \in Batches, i \in Idx :
        /\ tpc[b][i] = "done"
        /\ nq[b][i] = max_retries
        /\ nw[b][i] = max_retries
        /\ max_retries >= 2
        /\ tout[b][i].result = TimeoutText

\* A task that failed: its submission gave no task id, or its poll ran out
\* of retries (every query was pending or in error).
TaskFailed(b, i) ==
    /\ tpc[b][i] = "done"
    /\ \/ ~Truthy(task_id[b][i])
       \/ nw[b][i] = max_retries

\* C12: in a completed record the item of every failed task (submission
\* error, query errors until the retries run out, poll timeout) holds a
\* failure outcome: status failed with a message, never status success.
C12_FailedTaskHasFailureItem ==
    \A b \in Batches :
        (bpc[b] = "done" /\ get_batch_result(batch_id[b]).code = 200) =>
            LET rec == get_batch_result(batch_id[b]).body IN
            rec.status = "completed" =>
                \A k \in 1..Len(rec.results) :
                    TaskFailed(b, rec.results[k].index) =>
                        /\ "result" \in DOMAIN rec.results[k]
                        /\ rec.results[k].result.status = "failed"
                        /\ "message" \in DOMAIN rec.results[k].result

\* C13: the items of a completed record are in ascending index order: the
\* item at position i has index i and holds the outcome of task i, in
\* whatever order the tasks returned.
C13_ItemsInIndexOrder ==
    /\ \A b \in Batches : \A k \in 1..Len(results[b]) :
           /\ results[b][k].index = k - 1
           /\ results[b][k] = Item(k - 1, tout[b][k - 1])
    /\ \A id \in DOMAIN task_results :
           task_results[id].status = "completed" =>
               \E b \in Batches :
                   /\ batch_id[b] = id
                   /\ bpc[b] = "done"
                   /\ Len(task_results[id].results) = requests[b]
                   /\ \A k \in 1..requests[b] :
                          /\ task_results[id].results[k].index = k - 1
                          /\ task_results[id].results[k] = Item(k - 1, tout[b][k - 1])

\* C13 witness: a completed record whose last task returned first, with a
\* submission failure at index 0 and a poll timeout at the last index.
C13_Witness ==
    \E b \in Batches :
        /\ bpc[b] = "done"
        /\ requests[b] = MaxTasks
        /\ done_order[b] # << >>
        /\ done_order[b][1] = MaxTasks - 1
        /\ get_batch_result(batch_id[b]).code = 200
        /\ LET rec == get_batch_result(batch_id[b]).body IN
            /\ rec.status = "completed"
            /\ Len(rec.results) = MaxTasks
            /\ rec.results[1].result = Failed
            /\ rec.results[MaxTasks].result.status = "success"
            /\ rec.results[MaxTasks].result.result = TimeoutText

\* C16: every remote call takes exactly one permit before the transport
\* request and gives it back when the call ends, whatever the transport
\* did (a raised exception included): free permits plus calls in flight
\* equal max_concurrent, all permits are free when no call is in flight,
\* and a task holds no permit while it sleeps in the backoff or between
\* its submit and its first query.
C16_PermitHeldOnlyDuringCall ==
    /\ [](\A b \in Batches : bpc[b] \in {"running", "done"} =>
            /\ semaphore[b] + InFlight(b) = max_concurrent[b]
            /\ InFlight(b) = 0 => semaphore[b] = max_concurrent[b]
            /\ \A i \in Idx :
                   /\ held[b][i] = IF tpc[b][i] \in {"submitting", "querying"}
                                   THEN 1 ELSE 0
                   /\ tpc[b][i] \in {"sleeping", "poll"} => held[b][i] = 0)
    /\ [][\A b \in Batches, i \in Idx :
            LET calling == tpc[b][i] \in {"submitting", "querying"}
                calling2 == tpc'[b][i] \in {"submitting", "querying"}
            IN /\ (~calling /\ calling2) =>
                      /\ semaphore[b] >= 1
                      /\ semaphore'[b] = semaphore[b] - 1
                      /\ held'[b][i] = 1
               /\ (calling /\ tpc'[b][i] # tpc[b][i]) =>
                      /\ ~calling2
                      /\ semaphore'[b] = semaphore[b] + 1
                      /\ held'[b][i] = 0]_vars

\* C16 witness: one task sleeps in its backoff and another waits between
\* its submit and its first query, neither holding a permit, after calls
\* were made through the client, and all permits are free.
C16_Witness ==
    \E b \in Batches, i \in Idx, j \in Idx :
        /\ bpc[b] = "running"
        /\ max_concurrent[b] = MaxConcurrent
        /\ tpc[b][i] = "sleeping"
        /\ tpc[b][j] = "poll" /\ nq[b][j] = 0
        /\ held[b][i] = 0 /\ held[b][j] = 0
        /\ semaphore[b] = max_concurrent[b]

\* C18: within one task the remote calls are strictly sequential: the
\* submit has returned a task id before the first query is sent, every
\* earlier query and its backoff sleep have ended before the next query is
\* sent, and the task never has more than one call in flight nor holds
\* more than one permit.
C18_OneCallAtATime ==
    \A b \in Batches, i \in Idx :
        /\ held[b][i] \in {0, 1}
        /\ tpc[b][i] \in {"none", "submit", "submitting"} =>
               nq[b][i] = 0 /\ nw[b][i] = 0 /\ attempt[b][i] = 0
        /\ nq[b][i] >= 1 => Truthy(task_id[b][i])
        /\ tpc[b][i] = "querying" =>
               /\ held[b][i] = 1
               /\ nw[b][i] = nq[b][i] - 1
               /\ attempt[b][i] = nq[b][i] - 1
        /\ tpc[b][i] = "sleeping" =>
               /\ held[b][i] = 0
               /\ nw[b][i] = nq[b][i]
               /\ attempt[b][i] = nq[b][i] - 1
        /\ tpc[b][i] = "poll" =>
               /\ held[b][i] = 0
               /\ nw[b][i] = nq[b][i]
               /\ attempt[b][i] = nq[b][i]

\* C18 witness: a task whose second query is in flight, after its submit,
\* its first query and one backoff sleep have ended.
C18_Witness ==
    \E b \in Batches, i \in Idx :
        /\ tpc[b][i] = "querying"
        /\ Truthy(task_id[b][i])
        /\ nq[b][i] = 2
        /\ nw[b][i] = 1
        /\ attempt[b][i] = 1
        /\ held[b][i] = 1

RECURSIVE Pow(_, _)
Pow(x, k) == IF k = 0 THEN 1 ELSE x * Pow(x, k - 1)
Polling(b, i) == tpc[b][i] \in {"poll", "querying", "sleeping"}

\* C14: a status query that fails, because the transport call fails or
\* because the response cannot be parsed, is followed by a wait of the
\* current delay and a growth by the factor 2: while every query of the
\* poll so far has failed, the delay after k completed waits is
\* min(initial_delay * 2^k, max_delay).
C14_FailedQueryDoublesDelay ==
    \A b \in Batches, i \in Idx :
        (Polling(b, i) /\ nfail[b][i] = nw[b][i]) =>
            delay[b][i] = Min(InitialDelay * Pow(2, attempt[b][i]), MaxDelay)

\* C15: a status query that succeeds with a status that is not terminal is
\* followed by a wait of the current delay and a growth by the factor 1.5:
\* while no query of the poll has failed, the delay after k completed waits
\* is min(initial_delay * 1.5^k, max_delay); the first two waits last 1 s
\* and 1.5 s, and no wait is longer than max_delay.
C15_PendingQueryGrowsDelayByHalf ==
    \A b \in Batches, i \in Idx :
        /\ delay[b][i] <= MaxDelay
        /\ (Polling(b, i) /\ nfail[b][i] = 0) =>
               /\ delay[b][i] =
                      Min((InitialDelay * Pow(3, attempt[b][i]))
                              \div Pow(2, attempt[b][i]), MaxDelay)
               /\ (tpc[b][i] = "sleeping" /\ nw[b][i] = 1) => delay[b][i] = Unit
               /\ (tpc[b][i] = "sleeping" /\ nw[b][i] = 2) =>
                      2 * delay[b][i] = 3 * Unit

\* C15 witness: the seventh wait in a row after a pending answer, the
\* first one that lasts max_delay.
C15_Witness ==
    \E b \in Batches, i \in Idx :
        /\ tpc[b][i] = "sleeping"
        /\ ~in_except[b][i]
        /\ nfail[b][i] = 0
        /\ nw[b][i] = 7
        /\ delay[b][i] = MaxDelay

Underway(b, i) == tpc[b][i] \in {"submitting", "poll", "querying", "sleeping"}
AllEnded(b) == \A i \in Idx : i < requests[b] => tpc[b][i] = "done"

\* C17: a task that ends with an unexpected exception aborts neither its
\* batch nor its siblings: the exception leaves the run and every other
\* task as they were, a sibling that is underway still reaches its own
\* outcome, the run still completes once its tasks have ended, and the
\* completed record holds an error item at the index of the faulty task.
C17_FaultStaysInItsTask ==
    /\ [](\A b \in Batches :
            /\ bpc[b] # "crashed" \/ max_concurrent[b] < 0
            /\ \A k \in 1..Len(results[b]) :
                   tout[b][k - 1] = Raised =>
                       results[b][k] = [index |-> k - 1, error |-> Raised.message]
            /\ (bpc[b] = "done" /\ get_batch_result(batch_id[b]).code = 200) =>
                   LET rec == get_batch_result(batch_id[b]).body IN
                   /\ rec.status = "completed"
                   /\ Len(rec.results) = requests[b]
                   /\ \A k \in 1..Len(rec.results) :
                          tout[b][k - 1] = Raised =>
                              /\ rec.results[k].index = k - 1
                              /\ "error" \in DOMAIN rec.results[k]
                              /\ "result" \notin DOMAIN rec.results[k])
    /\ [][\A b \in Batches, i \in Idx :
            task_fault(b, i) =>
                /\ bpc'[b] = bpc[b]
                /\ results' = results
                /\ \A j \in Idx \ {i} :
                       /\ tpc'[b][j] = tpc[b][j]
                       /\ tout'[b][j] = tout[b][j]
                       /\ held'[b][j] = held[b][j]
                       /\ delay'[b][j] = delay[b][j]]_vars
    /\ \A b \in Batches, j \in Idx : Underway(b, j) ~> (tpc[b][j] = "done")
    /\ \A b \in Batches :
            (bpc[b] = "running" /\ AllEnded(b)) ~> (bpc[b] = "done")

\* C17 witness: a completed record of MaxTasks items whose first task
\* raised before the last one, which went on to poll and returned a
\* result: an error item at index 0 and a result item at the last index.
C17_Witness ==
    \E b \in Batches :
        /\ bpc[b] = "done"
        /\ requests[b] = MaxTasks
        /\ tout[b][0] = Raised
        /\ done_order[b] # << >>
        /\ done_order[b][1] = 0
        /\ nq[b][MaxTasks - 1] >= 1
        /\ get_batch_result(batch_id[b]).code = 200
        /\ LET rec == get_batch_result(batch_id[b]).body IN
            /\ rec.status = "completed"
            /\ Len(rec.results) = MaxTasks
            /\ rec.results[1] = [index |-> 0, error |-> Raised.message]
            /\ rec.results[MaxTasks].result.status = "success"

\* C19: process_api answers a submission that gave no task id with the
\* status 400 and sends no status query; it answers 500 only when an
\* unexpected exception occurred, which no request of these runs meets:
\* the other requests are answered 200.
C19_NoTaskIdAnswers400 ==
    \A r \in Reqs :
        api[r].pc = "replied" =>
            /\ api[r].reply.code # 500
            /\ IF ~Truthy(api[r].task_id)
               THEN api[r].reply.code = 400 /\ api[r].nq = 0
               ELSE api[r].reply.code = 200

====
